---- MODULE Spec2Model ----
(***************************************************************************)
(* A model of fries, a CHIP-8 interpreter: Memory (mem.rs), Registers      *)
(* (cpu.rs), Display (display.rs) and the Vm with its host loop            *)
(* (fries.rs).                                                             *)
(*                                                                         *)
(* Number representation.  u8 and u16 values are naturals kept in range    *)
(* with % 256 and % 65536 (the arithmetic of this Rust dialect wraps).     *)
(* A u64 row of the framebuffer is the set of its set bit positions, a     *)
(* subset of 0..63, bit 63 being the leftmost pixel; shifts and XOR are    *)
(* defined on that representation.                                         *)
(***************************************************************************)
EXTENDS Integers, Sequences, FiniteSets, TLC

\* ------------------------------------------------------------------------
\* Program constants
\* ------------------------------------------------------------------------
MEMORY_SIZE == 4096
ROM_LOC == 512
ROM_SIZE == MEMORY_SIZE - ROM_LOC
FONT_SPRITE_SIZE == 5
FONT_SPRITES == 16
FONT_LOC == 0
REGISTERS == 16
VF == 15
COLS == 64
ROWS == 32
MAX_SPRITE_HEIGHT == 15
CYCLES_PER_FRAME == 100
\* blocked_reg while nothing waits (Vm::new, Vm::keyup)
NO_REG == 255

\* the moduli of u8 and u16 arithmetic
U8 == 2 ^ 8
U16 == 2 ^ 16

\* ------------------------------------------------------------------------
\* Bounds of the model
\* ------------------------------------------------------------------------
\* Deepest return stack the model follows (ret_stack is an unbounded Vec).
MaxStack == 3

\* ------------------------------------------------------------------------
\* Bit operations on naturals
\* ------------------------------------------------------------------------
Pow2(k) == 2 ^ k

Bit(v, k) == (v \div Pow2(k)) % 2

RECURSIVE BitAndW(_, _, _)
BitAndW(a, b, w) ==
    IF w = 0 THEN 0
    ELSE (a % 2) * (b % 2) + 2 * BitAndW(a \div 2, b \div 2, w - 1)

RECURSIVE BitOrW(_, _, _)
BitOrW(a, b, w) ==
    IF w = 0 THEN 0
    ELSE (IF (a % 2) + (b % 2) > 0 THEN 1 ELSE 0)
         + 2 * BitOrW(a \div 2, b \div 2, w - 1)

RECURSIVE BitXorW(_, _, _)
BitXorW(a, b, w) ==
    IF w = 0 THEN 0
    ELSE (((a % 2) + (b % 2)) % 2) + 2 * BitXorW(a \div 2, b \div 2, w - 1)

And8(a, b) == BitAndW(a, b, 8)
Or8(a, b) == BitOrW(a, b, 8)
Xor8(a, b) == BitXorW(a, b, 8)
And16(a, b) == BitAndW(a, b, 16)
Or16(a, b) == BitOrW(a, b, 16)
\* !v on a u16
Not16(v) == (U16 - 1) - v

\* ------------------------------------------------------------------------
\* u64 words as sets of bit positions
\* ------------------------------------------------------------------------
Bits64 == 0 .. 63
\* (b as u64) for a u8 b
U64FromByte(b) == {k \in 0 .. 7 : Bit(b, k) = 1}
\* w << n and w >> n for 0 <= n < 64: bits shifted out are lost
Shl64(w, n) == {k + n : k \in w} \cap Bits64
Shr64(w, n) == {k - n : k \in w} \cap Bits64
Xor64(a, b) == (a \ b) \cup (b \ a)

\* ------------------------------------------------------------------------
\* Memory (mem.rs)
\* ------------------------------------------------------------------------
Addrs == 0 .. (MEMORY_SIZE - 1)

\* Memory::get: indexing checks the bound
MemGetOk(i) == i < MEMORY_SIZE

\* Memory::slice, Memory::mut_slice: start <= end <= len or the slice fails
MemSliceOk(start, end) == start <= end /\ end <= MEMORY_SIZE

\* the bytes of mem[start .. end) as a sequence
MemSlice(mem, start, end) == [k \in 1 .. (end - start) |-> mem[start + k - 1]]

\* dst.copy_from(src) on the mutable slice starting at start
MemCopyFrom(mem, start, src) ==
    [a \in Addrs |-> IF a >= start /\ a < start + Len(src)
                     THEN src[a - start + 1] ELSE mem[a]]

\* Memory::font_offset
font_offset(n) == (FONT_LOC + And8(n, 15) * FONT_SPRITE_SIZE) % U16

\* ------------------------------------------------------------------------
\* Registers (cpu.rs)
\* ------------------------------------------------------------------------
RegIdx == 0 .. (REGISTERS - 1)

\* Default for Registers
RegistersDefault == [r \in RegIdx |-> 0]

\* Registers::get_mut asserts i < REGISTERS; Registers::get indexes
RegIdxOk(i) == i < REGISTERS

\* *reg.get_mut(i) = v
RegSet(reg, i, v) == [reg EXCEPT ![i] = v]

\* Registers::set_flag
set_flag(reg, val) == [reg EXCEPT ![VF] = val]

\* ------------------------------------------------------------------------
\* Display (display.rs)
\* ------------------------------------------------------------------------
RowIdx == 0 .. (ROWS - 1)

\* Display::new
DisplayNew == [r \in RowIdx |-> {}]

\* Display::clear
clear(p) == [r \in RowIdx |-> {}]

\* draw_row without the second write: the bits shifted out on the right are
\* lost instead of wrapping to column 0
draw_row_nowrap(p, b, x, y) ==
    LET sprite == Shl64(U64FromByte(b), 64 - 8)
    IN  [p EXCEPT ![y] = Xor64(p[y], Shr64(sprite, x))]

\* draw_row that sets the sprite's pixels (|=) instead of toggling them (^=)
draw_row_or(p, b, x, y) ==
    LET sprite == Shl64(U64FromByte(b), 64 - 8)
        p1 == [p EXCEPT ![y] = p[y] \cup Shr64(sprite, x)]
    IN  IF x # 0
        THEN [p1 EXCEPT ![y] = p1[y] \cup Shl64(sprite, 64 - x)]
        ELSE p1

\* one iteration of the loop of Display::draw: sprite byte b into row y
draw_row(p, b, x, y) ==
    LET sprite == Shl64(U64FromByte(b), 64 - 8)
        p1 == [p EXCEPT ![y] = Xor64(p[y], Shr64(sprite, x))]
    IN  IF x # 0
        THEN [p1 EXCEPT ![y] = Xor64(p1[y], Shl64(sprite, 64 - x))]
        ELSE p1

RECURSIVE draw_loop(_, _, _, _, _)
draw_loop(p, sprite, k, x, y) ==
    IF k > Len(sprite) THEN p
    ELSE draw_loop(draw_row(p, sprite[k], x, y), sprite, k + 1, x, (y + 1) % ROWS)

\* Display::draw(sprite, x, y): the framebuffer after the call
draw(p, sprite, x, y) == draw_loop(p, sprite, 1, x % COLS, y % ROWS)

\* Display::pixels: the fields of a new Pixels iterator
pixels == [row_idx |-> 0, bit |-> 63]

\* pixels_next that takes the bits of a row from bit 0 upwards
pixels_next_lsb_first(p, it) ==
    IF it.row_idx >= ROWS
    THEN [item |-> "None", it |-> it]
    ELSE LET row == p[it.row_idx]
             shift == 63 - it.bit
             on == shift \in row
         IN  [item |-> IF on THEN "On" ELSE "Off",
              it |-> [row_idx |-> IF it.bit = 0 THEN it.row_idx + 1 ELSE it.row_idx,
                      bit |-> (it.bit - 1) % 64]]

\* Pixels::next on the iterator fields it over the framebuffer p: the item
\* returned ("On", "Off", or "None" at the end) and the fields afterwards.
\* (row & (1 << shift)) >> shift == 1 tests bit shift of the row; bit - 1
\* wraps at 0 to the largest uint, which is 63 modulo 64.
pixels_next(p, it) ==
    IF it.row_idx >= ROWS
    THEN [item |-> "None", it |-> it]
    ELSE LET row == p[it.row_idx]
             shift == it.bit
             on == shift \in row
         IN  [item |-> IF on THEN "On" ELSE "Off",
              it |-> [row_idx |-> IF it.bit = 0 THEN it.row_idx + 1 ELSE it.row_idx,
                      bit |-> (it.bit - 1) % 64]]

\* ------------------------------------------------------------------------
\* Vm (fries.rs)
\* ------------------------------------------------------------------------
\* The result of a call that may abort the process: the Vm as the call left
\* it, whether it aborted, and what aborted it: "decode" (the fail! of an
\* instruction word no arm matches), "underflow" (the expect on the return
\* stack), "bounds" (an index or a slice out of bounds), "assert" (an assert!).
Ok(s) == [vm |-> s, failed |-> FALSE, err |-> "none"]
Fail(s, why) == [vm |-> s, failed |-> TRUE, err |-> why]

\* static FONT
FONT ==
    << 240, 144, 144, 144, 240,   32,  96,  32,  32, 112,
       240,  16, 240, 128, 240,  240,  16, 240,  16, 240,
       144, 144, 240,  16,  16,  240, 128, 240,  16, 240,
       240, 128, 240, 144, 240,  240,  16,  32,  64,  64,
       240, 144, 240, 144, 240,  240, 144, 240,  16, 240,
       240, 144, 240, 144, 144,  224, 144, 224, 144, 224,
       240, 128, 128, 128, 240,  224, 144, 144, 144, 224,
       240, 128, 240, 128, 240,  240, 128, 240, 128, 128 >>

\* Rom::from_reader: byte k (from 0) of the Rom read from a file that holds
\* bytes: the buffer of ROM_SIZE bytes starts zeroed and is read into once
RomByte(bytes, k) == IF k < Len(bytes) /\ k < ROM_SIZE THEN bytes[k + 1] ELSE 0

\* Memory::new, Memory::load_rom, then Memory::load_font (Vm::new): byte a
\* of the memory.  The font lies at FONT_LOC .. FONT_LOC + 79, the Rom at
\* ROM_LOC .. MEMORY_SIZE - 1, every other byte is 0.
LoadedByte(bytes, a) ==
    IF a >= FONT_LOC /\ a < FONT_LOC + FONT_SPRITE_SIZE * FONT_SPRITES
    THEN FONT[a - FONT_LOC + 1]
    ELSE IF a >= ROM_LOC THEN RomByte(bytes, a - ROM_LOC)
    ELSE 0

\* Vm::new, for the Rom read from a file that holds bytes
VmNew(bytes) ==
    [ mem         |-> [a \in Addrs |-> LoadedByte(bytes, a)],
      reg         |-> RegistersDefault,
      pc          |-> ROM_LOC,
      dt          |-> 0,
      st          |-> 0,
      i           |-> 0,
      ret_stack   |-> << >>,
      display     |-> DisplayNew,
      blocked     |-> FALSE,
      blocked_reg |-> NO_REG,
      keys        |-> 0 ]

\* Registers::slice(start, end), used by Vm::misc and not defined in cpu.rs
RegSlice(reg, start, end) == [k \in 1 .. (end - start) |-> reg[start + k - 1]]

\* dst.copy_from(src) on Registers::mut_slice(start, end), not defined in cpu.rs
RegCopyFrom(reg, start, src) ==
    [r \in RegIdx |-> IF r >= start /\ r < start + Len(src)
                      THEN src[r - start + 1] ELSE reg[r]]

\* math_add with the carry taken as res <= vy
math_add_le(reg, x, vy) ==
    LET r1 == RegSet(reg, x, (reg[x] + vy) % U8)
        res == r1[x]
    IN  set_flag(r1, IF res <= vy THEN 1 ELSE 0)

\* Vm::math_op, arm 0x4: VX += VY, carry -> VF
math_add(reg, x, vy) ==
    LET r1 == RegSet(reg, x, (reg[x] + vy) % U8)
        res == r1[x]
    IN  set_flag(r1, IF res < vy THEN 1 ELSE 0)

\* math_sub with the borrow computed after VX has been overwritten
math_sub_late_flag(reg, x, vx, vy) ==
    LET r1 == RegSet(reg, x, (reg[x] - vy) % U8)
    IN  set_flag(r1, IF vy > r1[x] THEN 1 ELSE 0)

\* Vm::math_op, arm 0x5: VX -= VY, borrow -> VF
math_sub(reg, x, vx, vy) ==
    LET r1 == set_flag(reg, IF vy > vx THEN 1 ELSE 0)
    IN  RegSet(r1, x, (r1[x] - vy) % U8)

\* math_shr that shifts VX in place (the other CHIP-8 convention)
math_shr_vx(reg, x, vy) ==
    LET res == reg[x] \div 2
    IN  RegSet(set_flag(reg, And8(reg[x], 1)), x, res)

\* Vm::math_op, arm 0x6: VX = VY >> 1, VF = LSB(VY)
math_shr(reg, x, vy) ==
    LET res == vy \div 2
    IN  RegSet(set_flag(reg, And8(vy, 1)), x, res)

\* Vm::math_op, arm 0x7: VX = VY - VX, borrow -> VF
math_subn(reg, x, vx, vy) ==
    LET r1 == set_flag(reg, IF vx > vy THEN 1 ELSE 0)
    IN  RegSet(r1, x, (vy - r1[x]) % U8)

\* Vm::math_op, arm 0xe: VX = VY << 1, VF = MSB(VY)
math_shl(reg, x, vy) ==
    LET res == (vy * 2) % U8
    IN  RegSet(set_flag(reg, And8(vy \div 128, 1)), x, res)

\* Vm::math_op
math_op(s, x, y, op) ==
    LET vx == s.reg[x]
        vy == s.reg[y]
    IN  CASE op = 0  -> Ok([s EXCEPT !.reg = RegSet(s.reg, x, vy)])
          [] op = 1  -> Ok([s EXCEPT !.reg = RegSet(s.reg, x, Or8(s.reg[x], vy))])
          [] op = 2  -> Ok([s EXCEPT !.reg = RegSet(s.reg, x, And8(s.reg[x], vy))])
          [] op = 3  -> Ok([s EXCEPT !.reg = RegSet(s.reg, x, Xor8(s.reg[x], vy))])
          [] op = 4  -> Ok([s EXCEPT !.reg = math_add(s.reg, x, vy)])
          [] op = 5  -> Ok([s EXCEPT !.reg = math_sub(s.reg, x, vx, vy)])
          [] op = 6  -> Ok([s EXCEPT !.reg = math_shr(s.reg, x, vy)])
          [] op = 7  -> Ok([s EXCEPT !.reg = math_subn(s.reg, x, vx, vy)])
          [] op = 14 -> Ok([s EXCEPT !.reg = math_shl(s.reg, x, vy)])
          [] OTHER   -> Fail(s, "decode")

\* bcd whose tens digit is not reduced mod 10
bcd_tens_unreduced(val) == << (val \div 100) % 10, val \div 10, val % 10 >>

\* Vm::misc, arm 0x33: the BCD digits of val
bcd(val) == << (val \div 100) % 10, (val \div 10) % 10, val % 10 >>

\* Vm::misc, arm 0x33
misc_bcd(s, x) ==
    LET val == s.reg[x]
        end == (s.i + 3) % U16
    IN  IF MemSliceOk(s.i, end)
        THEN Ok([s EXCEPT !.mem = [s.mem EXCEPT ![s.i] = bcd(val)[1],
                                                ![s.i + 1] = bcd(val)[2],
                                                ![s.i + 2] = bcd(val)[3]]])
        ELSE Fail(s, "bounds")

\* misc_store that leaves I where it was (the other CHIP-8 convention)
misc_store_keeps_i(s, x) ==
    LET new_i == (s.i + x + 1) % U16
    IN  IF MemSliceOk(s.i, new_i)
        THEN Ok([s EXCEPT !.mem = MemCopyFrom(s.mem, s.i, RegSlice(s.reg, 0, x + 1))])
        ELSE Fail(s, "bounds")

\* Vm::misc, arm 0x55: store registers to memory
misc_store(s, x) ==
    LET new_i == (s.i + x + 1) % U16
    IN  IF MemSliceOk(s.i, new_i)
        THEN Ok([s EXCEPT !.mem = MemCopyFrom(s.mem, s.i, RegSlice(s.reg, 0, x + 1)),
                          !.i = new_i])
        ELSE Fail(s, "bounds")

\* Vm::misc, arm 0x65: load registers from memory
misc_load(s, x) ==
    LET new_i == (s.i + x + 1) % U16
    IN  IF MemSliceOk(s.i, new_i)
        THEN Ok([s EXCEPT !.reg = RegCopyFrom(s.reg, 0, MemSlice(s.mem, s.i, new_i)),
                          !.i = new_i])
        ELSE Fail(s, "bounds")

\* misc_wait that sets blocked and forgets the target register
misc_wait_no_target(s, x) == [s EXCEPT !.blocked = TRUE]

\* Vm::misc, arm 0x0a: wait for keypress
misc_wait(s, x) == [s EXCEPT !.blocked_reg = x, !.blocked = TRUE]

\* misc that ignores an FXNN it does not know
misc_ignores_unknown(s, x, nn) ==
    CASE nn = 7   -> Ok([s EXCEPT !.reg = RegSet(s.reg, x, s.dt)])
      [] nn = 10  -> Ok(misc_wait(s, x))
      [] nn = 21  -> Ok([s EXCEPT !.dt = s.reg[x]])
      [] nn = 24  -> Ok([s EXCEPT !.st = s.reg[x]])
      [] nn = 41  -> Ok([s EXCEPT !.i = font_offset(s.reg[x])])
      [] nn = 51  -> misc_bcd(s, x)
      [] nn = 30  -> Ok([s EXCEPT !.i = (s.i + s.reg[x]) % U16])
      [] nn = 85  -> misc_store(s, x)
      [] nn = 101 -> misc_load(s, x)
      [] OTHER    -> Ok(s)

\* Vm::misc
misc(s, x, nn) ==
    CASE nn = 7   -> Ok([s EXCEPT !.reg = RegSet(s.reg, x, s.dt)])
      [] nn = 10  -> Ok(misc_wait(s, x))
      [] nn = 21  -> Ok([s EXCEPT !.dt = s.reg[x]])
      [] nn = 24  -> Ok([s EXCEPT !.st = s.reg[x]])
      [] nn = 41  -> Ok([s EXCEPT !.i = font_offset(s.reg[x])])
      [] nn = 51  -> misc_bcd(s, x)
      [] nn = 30  -> Ok([s EXCEPT !.i = (s.i + s.reg[x]) % U16])
      [] nn = 85  -> misc_store(s, x)
      [] nn = 101 -> misc_load(s, x)
      [] OTHER    -> Fail(s, "decode")

\* Vm::is_key_pressed, after its assert!(key < 16)
is_key_pressed(keys, key) == And16(keys, Pow2(key)) \div Pow2(key) = 1

\* Vm::tick, the skip instructions: pc += 2 when cond
skip_if(s, cond) == IF cond THEN [s EXCEPT !.pc = (s.pc + 2) % U16] ELSE s

\* tick_call that pushes the address of the call itself
tick_call_pushes_site(s, nnn) ==
    [s EXCEPT !.ret_stack = Append(s.ret_stack, (s.pc - 2) % U16), !.pc = nnn]

\* Vm::tick, arm 0x2: call
tick_call(s, nnn) == [s EXCEPT !.ret_stack = Append(s.ret_stack, s.pc), !.pc = nnn]

\* tick_return that falls back to address 0 when the stack is empty
tick_return_default(s) ==
    IF s.ret_stack = << >>
    THEN Ok([s EXCEPT !.pc = 0])
    ELSE Ok([s EXCEPT !.pc = s.ret_stack[Len(s.ret_stack)],
                      !.ret_stack = SubSeq(s.ret_stack, 1, Len(s.ret_stack) - 1)])

\* Vm::tick, ins == 0x00ee: return
tick_return(s) ==
    IF s.ret_stack = << >>
    THEN Fail(s, "underflow")
    ELSE Ok([s EXCEPT !.pc = s.ret_stack[Len(s.ret_stack)],
                      !.ret_stack = SubSeq(s.ret_stack, 1, Len(s.ret_stack) - 1)])

\* Vm::tick, arm 0xd: draw sprite.  Display::draw returns no value, and the
\* arm takes its result for the collision: col is that result.
tick_draw(s, x, y, n, col) ==
    LET end == (s.i + n) % U16
    IN  IF MemSliceOk(s.i, end)
        THEN LET sprite == MemSlice(s.mem, s.i, end)
                 vx == s.reg[x]
                 vy == s.reg[y]
                 flag == IF col THEN 1 ELSE 0
             IN  Ok([s EXCEPT !.display = draw(s.display, sprite, vx, vy),
                              !.reg = set_flag(s.reg, flag)])
        ELSE Fail(s, "bounds")

\* Vm::tick, arms 0xe: the key skips
tick_key(s, x, pressed) ==
    IF s.reg[x] < 16
    THEN Ok(skip_if(s, is_key_pressed(s.keys, s.reg[x]) = pressed))
    ELSE Fail(s, "assert")

\* the fields of an instruction word
InsOp(ins) == (ins \div 4096) % 16
InsX(ins) == (ins \div 256) % 16
InsY(ins) == (ins \div 16) % 16
InsN(ins) == ins % 16
InsNN(ins) == ins % 256
InsNNN(ins) == ins % 4096

\* Fetch that takes both addresses modulo the size of the memory
Fetch_wraps(s) ==
    s.mem[s.pc % MEMORY_SIZE] * 256 + s.mem[((s.pc + 1) % U16) % MEMORY_SIZE]

\* The instruction word Vm::tick fetches at pc; -1 when the fetch fails.
Fetch(s) ==
    IF MemGetOk(s.pc) /\ MemGetOk((s.pc + 1) % U16)
    THEN s.mem[s.pc] * 256 + s.mem[(s.pc + 1) % U16]
    ELSE -1

\* Vm::tick, after the fetch and pc += 2: s is the Vm with pc advanced.
\* rnd is the byte the rng yields, col the value taken from Display::draw.
execute(s, ins, rnd, col) ==
    LET op == InsOp(ins)
        x == InsX(ins)
        y == InsY(ins)
        n == InsN(ins)
        nn == InsNN(ins)
        nnn == InsNNN(ins)
    IN  IF ins = 224 THEN Ok([s EXCEPT !.display = clear(s.display)])
        ELSE IF ins = 238 THEN tick_return(s)
        ELSE CASE op = 1  -> Ok([s EXCEPT !.pc = nnn])
               [] op = 2  -> Ok(tick_call(s, nnn))
               [] op = 3  -> Ok(skip_if(s, s.reg[x] = nn))
               [] op = 4  -> Ok(skip_if(s, s.reg[x] # nn))
               [] op = 5  -> Ok(skip_if(s, s.reg[x] = s.reg[y]))
               [] op = 6  -> Ok([s EXCEPT !.reg = RegSet(s.reg, x, nn)])
               [] op = 7  -> Ok([s EXCEPT !.reg = RegSet(s.reg, x, (s.reg[x] + nn) % U8)])
               [] op = 8  -> math_op(s, x, y, n)
               [] op = 9  -> Ok(skip_if(s, s.reg[x] # s.reg[y]))
               [] op = 10 -> Ok([s EXCEPT !.i = nnn])
               [] op = 11 -> Ok([s EXCEPT !.pc = (nnn + s.reg[0]) % U16])
               [] op = 12 -> Ok([s EXCEPT !.reg = RegSet(s.reg, x, And8(rnd, nn))])
               [] op = 13 -> tick_draw(s, x, y, n, col)
               [] op = 14 /\ nn = 158 -> tick_key(s, x, TRUE)
               [] op = 14 /\ nn = 161 -> tick_key(s, x, FALSE)
               [] op = 15 -> misc(s, x, nn)
               [] OTHER   -> Fail(s, "decode")

\* Vm::tick
tick(s, rnd, col) ==
    LET ins == Fetch(s)
    IN  IF ins = -1 THEN Fail(s, "bounds")
        ELSE execute([s EXCEPT !.pc = (s.pc + 2) % U16], ins, rnd, col)

\* render that ends a key wait once the delay timer has run out
render_times_out(s) ==
    LET s1 == [s EXCEPT !.dt = IF s.dt > 0 THEN s.dt - 1 ELSE s.dt,
                        !.st = IF s.st > 0 THEN s.st - 1 ELSE s.st]
    IN  IF s1.blocked /\ s1.dt = 0
        THEN [s1 EXCEPT !.blocked = FALSE, !.blocked_reg = NO_REG]
        ELSE s1

\* render that decrements both timers without looking at them
render_wrapping(s) ==
    [s EXCEPT !.dt = (s.dt - 1) % U8,
              !.st = (s.st - 1) % U8]

\* Vm::render: the timers (the texture update reads the display only)
render(s) ==
    [s EXCEPT !.dt = IF s.dt > 0 THEN s.dt - 1 ELSE s.dt,
              !.st = IF s.st > 0 THEN s.st - 1 ELSE s.st]

\* keydown that replaces the key mask by the bit of the key
keydown_single(s, key) == [s EXCEPT !.keys = Pow2(key)]

\* keydown that also ends a key wait, capturing the pressed key
keydown_resumes(s, key) ==
    LET s1 == [s EXCEPT !.keys = Or16(s.keys, Pow2(key))]
    IN  IF s1.blocked /\ RegIdxOk(s1.blocked_reg)
        THEN [s1 EXCEPT !.blocked = FALSE,
                        !.reg = RegSet(s1.reg, s1.blocked_reg, key % U8),
                        !.blocked_reg = NO_REG]
        ELSE s1

\* Vm::keydown, after its assert!(key < 16)
keydown(s, key) == [s EXCEPT !.keys = Or16(s.keys, Pow2(key))]

\* keyup that captures a key only if the mask had it pressed
keyup_only_pressed(s, key) ==
    LET s1 == [s EXCEPT !.keys = And16(s.keys, Not16(Pow2(key)))]
    IN  IF s1.blocked /\ is_key_pressed(s.keys, key)
        THEN Ok([s1 EXCEPT !.blocked = FALSE,
                           !.reg = RegSet(s1.reg, s1.blocked_reg, key % U8),
                           !.blocked_reg = NO_REG])
        ELSE Ok(s1)

\* Vm::keyup, after its assert!(key < 16)
keyup(s, key) ==
    LET s1 == [s EXCEPT !.keys = And16(s.keys, Not16(Pow2(key)))]
    IN  IF s1.blocked
        THEN IF RegIdxOk(s1.blocked_reg)
             THEN Ok([s1 EXCEPT !.blocked = FALSE,
                                !.reg = RegSet(s1.reg, s1.blocked_reg, key % U8),
                                !.blocked_reg = NO_REG])
             ELSE Fail([s1 EXCEPT !.blocked = FALSE], "assert")
        ELSE Ok(s1)

\* ------------------------------------------------------------------------
\* Inputs: ROM images, key codes, random bytes
\* ------------------------------------------------------------------------
\* the two bytes of each instruction word, in order
RECURSIVE Assemble(_)
Assemble(words) ==
    IF words = << >> THEN << >>
    ELSE << words[1] \div 256, words[1] % 256 >> \o Assemble(Tail(words))

\* FX0A twice, for a target register t
WaitProgram(t) == << 61450 + 256 * t, 61450 + 256 * t >>

\* 200: call 208   202: call 20C   204: ret (empty stack)   206: 0000
\* 208: call 20C   20A: ret        20C: ret
CallProgram == << 8712, 8716, 238, 0, 8716, 238, 238 >>

\* 200: call 200
RecursionProgram == << 8704 >>

\* V0 = 3, dt = V0, V1 = 2, st = V1, wait for a key into V2
TimerProgram == << 24579, 61461, 24834, 61720, 61962 >>

\* 200: jump 200
SpinProgram == << 4608 >>

\* 200: V0 = 7   202: skip if key V0 pressed   204: jump 202
\* 206: skip if key V0 not pressed   208: jump 206   20A: wait for a key into V0
KeyProgram == << 24583, 57502, 4610, 57505, 4614, 61450 >>

Programs ==
    {WaitProgram(t) : t \in {0, 3, 15}}
        \cup {CallProgram, RecursionProgram, TimerProgram, SpinProgram, KeyProgram}

\* sprite rows stored after a DrawProgram, at 0x210
SpriteData == << 255, 129, 1, 128, 165, 60, 255, 0, 24, 102, 255, 15, 240, 170, 85 >>
SpriteDataLoc == ROM_LOC + 16

\* I = a, V0 = x, V1 = y, draw n rows at (V0, V1), V0 = x2, V1 = y2, draw n2
\* rows at (V0, V1), and the same draw again
DrawProgram(a, x, y, n, x2, y2, n2) ==
    << 40960 + a, 24576 + x, 24832 + y, 53264 + n,
       24576 + x2, 24832 + y2, 53264 + n2, 53264 + n2 >>

DrawXs == {0, 57, 63, 255}
DrawYs == {0, 18, 31, 255}
DrawNs == {0, 1, 2, 15}
DrawAddrs == {FONT_LOC, SpriteDataLoc}

DrawRoms ==
    {Assemble(DrawProgram(a, x, y, n, x2, y2, n2)) \o SpriteData :
        a \in DrawAddrs, x \in DrawXs, y \in DrawYs, n \in DrawNs,
        x2 \in {0, 60}, y2 \in {0, 31}, n2 \in {1, 15}}

\* VX = a, VY = b, then 8XYn
AluProgram(x, a, y, b, n) ==
    << 24576 + 256 * x + a, 24576 + 256 * y + b, 32768 + 256 * x + 16 * y + n >>

AluRegs == {0, 1, 15}
AluBytes == {0, 1, 5, 10, 127, 128, 250, 255}
AluOps == {4, 5, 6, 7, 14}

AluRoms ==
    {Assemble(AluProgram(x, a, y, b, n)) :
        x \in AluRegs, a \in AluBytes, y \in AluRegs, b \in AluBytes, n \in AluOps}

\* VX = v, I = a, then FX33
BcdProgram(x, v, a) == << 24576 + 256 * x + v, 40960 + a, 61491 + 256 * x >>

\* 0: the font; 518: the bytes after the program; 4093: the last three
\* bytes of memory; 4094: one byte too far
BcdAddrs == {0, 518, 768, 4093, 4094}

BcdRoms == {Assemble(BcdProgram(x, v, a)) : x \in {0, 15}, v \in 0 .. 255, a \in BcdAddrs}

\* V0 = a, dt = V0, V1 = b, st = V1, wait for a key into V2
TimerSetProgram(a, b) == << 24576 + a, 61461, 24832 + b, 61720, 61962 >>

\* the values written to the delay timer and to the sound timer
TimerValues == {<< 0, 0 >>, << 1, 255 >>, << 3, 2 >>, << 255, 1 >>}

TimerRoms == {Assemble(TimerSetProgram(ab[1], ab[2])) : ab \in TimerValues}

\* instruction words of every class: the 0NNN words around 00E0 and 00EE,
\* 8XYN for every N, EXNN and FXNN for every NN, and the other classes with
\* a few operands each
DecodeWords ==
    {0, 14, 224, 225, 238, 239, 291, 494, 3808, 4095}
        \cup {32768 + 256 * x + 16 + n : x \in {0, 15}, n \in 0 .. 15}
        \cup {57344 + 256 * x + nn : x \in {0, 5}, nn \in 0 .. 255}
        \cup {61440 + 256 * x + nn : x \in {0, 15}, nn \in 0 .. 255}
        \cup {4096 * op + nnn : op \in {1, 2, 3, 4, 5, 6, 7, 9, 10, 11, 12, 13},
                                nnn \in {0, 291, 516, 4095}}

\* one instruction word at 0x200
DecodeRoms == {Assemble(<< w >>) : w \in DecodeWords}

\* I = a, V0 = x, V1 = y, draw n rows at (V0, V1), clear the screen
PixelsProgram(a, x, y, n) == << 40960 + a, 24576 + x, 24832 + y, 53264 + n, 224 >>

\* the glyph 0 at (0, 0); fifteen rows of the font from glyph 1 on at
\* (61, 30), wrapping at both edges
PixelsRoms == {Assemble(PixelsProgram(0, 0, 0, 5)), Assemble(PixelsProgram(5, 61, 30, 15))}

\* V0 = 11, V1 = 22, V2 = 33, VE = 44, VF = 55 (hex), I = a, FX55, then
\* V0 = AA, V1 = BB, VF = CC, I = a, FX65
StoreLoadProgram(x, a) ==
    << 24593, 24866, 25139, 28228, 28501, 40960 + a, 61525 + 256 * x,
       24746, 25019, 28620, 40960 + a, 61541 + 256 * x >>

\* 0: the font; 768: free memory; 4080: the last 16 bytes; 4090, 4095: the
\* end of memory, too near for the larger X
StoreLoadAddrs == {0, 768, 4080, 4090, 4095}

StoreLoadRoms == {Assemble(StoreLoadProgram(x, a)) : x \in RegIdx, a \in StoreLoadAddrs}

\* instructions that read or write memory at I: DXYN with 0, 1 and 15 rows,
\* FX33, FX55 and FX65 with X = 0, 2 (FX55) and 15
AccessWords == {53248, 53249, 53263, 61491, 61525, 62037, 65365, 61541, 65381}

\* I = a, V0 = v, I += V0, then the access
AccessProgram(a, v, acc) == << 40960 + a, 24576 + v, 61470, acc >>

\* I = 0xFFF, V0 = 0xF0, V1 = 0, then 256 times I += V0 (I = 0xFFFF), then
\* the access
WrapProgram(acc) == << 45055, 24816, 24832, 61470, 28929, 12544, 4614, acc >>

\* a jump to the last word, to the last byte, BNNN to the last byte and
\* beyond the memory (V0 = 0xFF)
JumpPrograms == {<< 8190 >>, << 8191 >>, << 49151 >>, << 24831, 48896 >>, << 24831, 49151 >>}

\* a ROM as large as a Rom: a jump to its last word, 6000 there, and the
\* tick after it runs off the end of the memory
RunOffRom ==
    [k \in 1 .. ROM_SIZE |->
        IF k = 1 THEN 31 ELSE IF k = 2 THEN 254 ELSE IF k = ROM_SIZE - 1 THEN 96 ELSE 0]

BoundsRoms ==
    {Assemble(AccessProgram(a, v, acc)) :
        a \in {4080, 4095}, v \in {0, 1, 255}, acc \in AccessWords}
        \cup {Assemble(WrapProgram(acc)) : acc \in {53249, 61491, 61525, 61541}}
        \cup {Assemble(prog) : prog \in JumpPrograms}
        \cup {RunOffRom}

\* key codes of the key-press events, and of the key-release events
KeysPressed == {0, 7, 15}
KeysReleased == 0 .. 15

\* bytes the rng yields
RandBytes == {0, 165, 255}

\* ------------------------------------------------------------------------
\* The state machine
\* ------------------------------------------------------------------------
VARIABLES
    vm,      \* the Vm: mem, reg, pc, dt, st, i, ret_stack, display, blocked,
             \* blocked_reg, keys
    failed,  \* the process has aborted (fail!, assert!, expect, bounds check)
    error,   \* what aborted it ("none" while it runs), see Fail
    cycle,   \* run_emulator: the counter of the for loop over CYCLES_PER_FRAME
    hpc,     \* run_emulator: "ticks" (in the for loop), "render" (after
             \* poll_event), "done" (after break 'main)
    iter,    \* a Pixels iterator over vm.display: live (it exists and has not
             \* ended), its fields row_idx and bit, and as history k (the
             \* items it has yielded) and item (what next() last returned)
    last,    \* history: the last step, [op, arg]: a call on the Vm ("tick",
             \* "keydown", "keyup", "render"), on the display ("pixels",
             \* "next") or a poll_event without one ("noevent", "close"); arg
             \* is the instruction word of a tick (-1: the fetch failed), the
             \* key code of a key event
    calls,   \* history: the calls not yet returned from, oldest first, each
             \* [site: the address of the call, stack: ret_stack before it]
    drawn,   \* history: the last Display::draw call, [n: draws so far,
             \* before: the framebuffer before it, sprite, x, y: its arguments,
             \* twice: the call before it on the Vm was a draw of the same
             \* arguments]
    timers,  \* history: dt_set, st_set: the value FX15, FX18 last wrote to
             \* the timer (0 from Vm::new); dt_frames, st_frames: the calls of
             \* render since, counted up to one past the value written
    held,    \* history: the keys whose most recent event was a keydown
    frame_ticks, \* history: the calls of tick since the last call of render
    stored   \* history: the last FX55, [n: stores so far, i, x, reg: I, X and
             \* the registers before it, clean: no instruction has written
             \* memory since]

vars == << vm, failed, error, cycle, hpc, iter, last, calls, drawn, timers, held,
           frame_ticks, stored >>

\* no Pixels iterator
NoIter == [live |-> FALSE, row_idx |-> 0, bit |-> 0, k |-> 0, item |-> "-"]

\* the state after Vm::new, for a ROM file out of roms (each its bytes)
InitWith(roms) ==
    /\ \E bytes \in roms : vm = VmNew(bytes)
    /\ failed = FALSE
    /\ error = "none"
    /\ cycle = 0
    /\ hpc = "ticks"
    /\ iter = NoIter
    /\ last = [op |-> "new", arg |-> 0]
    /\ calls = << >>
    /\ drawn = [n |-> 0, before |-> DisplayNew, sprite |-> << >>, x |-> 0, y |-> 0,
                twice |-> FALSE]
    /\ timers = [dt_set |-> 0, dt_frames |-> 0, st_set |-> 0, st_frames |-> 0]
    /\ held = {}
    /\ frame_ticks = 0
    /\ stored = [n |-> 0, i |-> 0, x |-> 0, reg |-> RegistersDefault, clean |-> FALSE]

Init == InitWith({Assemble(prog) : prog \in Programs})

IsCall(ins) == ins # -1 /\ InsOp(ins) = 2
IsReturn(ins) == ins = 238

\* the history of calls after a tick that fetched ins with result r
CallsAfter(ins, r) ==
    IF r.failed THEN calls
    ELSE IF IsCall(ins)
         THEN Append(calls, [site |-> vm.pc, stack |-> vm.ret_stack])
    ELSE IF IsReturn(ins)
         THEN SubSeq(calls, 1, Len(calls) - 1)
    ELSE calls

IsDraw(ins) == ins # -1 /\ InsOp(ins) = 13

\* the sprite DXYN reads: the n bytes at I
SpriteAt(s, ins) == MemSlice(s.mem, s.i, s.i + InsN(ins))

\* the history of draws after a tick that fetched ins with result r
DrawnAfter(ins, r) ==
    IF IsDraw(ins) /\ ~r.failed
    THEN [n |-> drawn.n + 1, before |-> vm.display, sprite |-> SpriteAt(vm, ins),
          x |-> vm.reg[InsX(ins)], y |-> vm.reg[InsY(ins)],
          twice |-> /\ last.op = "tick" /\ IsDraw(last.arg)
                    /\ drawn.sprite = SpriteAt(vm, ins)
                    /\ drawn.x = vm.reg[InsX(ins)]
                    /\ drawn.y = vm.reg[InsY(ins)]]
    ELSE drawn

\* ins is FXNN with the given NN
IsMisc(ins, nn) == ins # -1 /\ InsOp(ins) = 15 /\ InsNN(ins) = nn

\* the history of timer writes after a tick that fetched ins with result r
TimersAfterTick(ins, r) ==
    IF r.failed THEN timers
    ELSE IF IsMisc(ins, 21)
         THEN [timers EXCEPT !.dt_set = vm.reg[InsX(ins)], !.dt_frames = 0]
    ELSE IF IsMisc(ins, 24)
         THEN [timers EXCEPT !.st_set = vm.reg[InsX(ins)], !.st_frames = 0]
    ELSE timers

\* the history of timer writes after a call of render
TimersAfterRender ==
    [timers EXCEPT
        !.dt_frames = IF @ <= timers.dt_set THEN @ + 1 ELSE @,
        !.st_frames = IF @ <= timers.st_set THEN @ + 1 ELSE @]

\* the history of stores after a tick that fetched ins with result r
StoredAfter(ins, r) ==
    IF IsMisc(ins, 85) /\ ~r.failed
    THEN [n |-> stored.n + 1, i |-> vm.i, x |-> InsX(ins), reg |-> vm.reg,
          clean |-> TRUE]
    ELSE IF stored.clean /\ r.vm.mem # vm.mem
         THEN [stored EXCEPT !.clean = FALSE]
    ELSE stored

\* the rng is asked for a byte by CXNN only, and Display::draw is called by
\* DXYN only
RndFor(ins) == IF ins # -1 /\ InsOp(ins) = 12 THEN RandBytes ELSE {0}
ColFor(ins) == IF ins # -1 /\ InsOp(ins) = 13 THEN BOOLEAN ELSE {FALSE}

\* a call of vm.tick()
DoTick ==
    /\ ~failed
    /\ ~(IsCall(Fetch(vm)) /\ Len(vm.ret_stack) >= MaxStack)
    /\ \E rnd \in RndFor(Fetch(vm)), col \in ColFor(Fetch(vm)) :
          LET r == tick(vm, rnd, col)
          IN  /\ vm' = r.vm
              /\ failed' = r.failed
              /\ error' = r.err
              /\ calls' = CallsAfter(Fetch(vm), r)
              /\ drawn' = DrawnAfter(Fetch(vm), r)
              /\ timers' = TimersAfterTick(Fetch(vm), r)
              /\ stored' = StoredAfter(Fetch(vm), r)
    /\ last' = [op |-> "tick", arg |-> Fetch(vm)]
    /\ frame_ticks' = frame_ticks + 1
    /\ UNCHANGED << iter, held >>

\* a call of vm.keydown(key)
DoKeyDown(key) ==
    /\ ~failed
    /\ vm' = keydown(vm, key)
    /\ last' = [op |-> "keydown", arg |-> key]
    /\ held' = held \cup {key}
    /\ UNCHANGED << failed, error, iter, calls, drawn, timers, frame_ticks, stored >>

\* a call of vm.keyup(key)
DoKeyUp(key) ==
    /\ ~failed
    /\ LET r == keyup(vm, key)
       IN  vm' = r.vm /\ failed' = r.failed /\ error' = r.err
    /\ last' = [op |-> "keyup", arg |-> key]
    /\ held' = held \ {key}
    /\ UNCHANGED << iter, calls, drawn, timers, frame_ticks, stored >>

\* a call of vm.render(texture)
DoRender ==
    /\ ~failed
    /\ vm' = render(vm)
    /\ last' = [op |-> "render", arg |-> 0]
    /\ timers' = TimersAfterRender
    /\ frame_ticks' = 0
    /\ UNCHANGED << failed, error, iter, calls, drawn, held, stored >>

\* what a poll_event that calls nothing on the Vm leaves alone
NoCall == UNCHANGED << vm, failed, error, iter, calls, drawn, timers, held,
                       frame_ticks, stored >>

\* --- run_emulator -------------------------------------------------------
\* HostTick without the break: tick() is called also while vm.blocked
HostTick_no_break ==
    /\ hpc = "ticks"
    /\ cycle < CYCLES_PER_FRAME
    /\ DoTick
    /\ cycle' = cycle + 1
    /\ UNCHANGED hpc

\* the body of the for loop: if vm.blocked { break; } vm.tick();
HostTick ==
    /\ hpc = "ticks"
    /\ cycle < CYCLES_PER_FRAME
    /\ ~vm.blocked
    /\ DoTick
    /\ cycle' = cycle + 1
    /\ UNCHANGED hpc

\* the for loop has ended (its range, or the break)
LoopEnded == hpc = "ticks" /\ (cycle >= CYCLES_PER_FRAME \/ vm.blocked)

\* poll_event: KeyPressed with a mapped key
HostKeyPressed ==
    /\ LoopEnded
    /\ \E key \in KeysPressed : DoKeyDown(key)
    /\ hpc' = "render"
    /\ UNCHANGED cycle

\* poll_event: KeyReleased with a mapped key
HostKeyReleased ==
    /\ LoopEnded
    /\ \E key \in KeysReleased : DoKeyUp(key)
    /\ hpc' = "render"
    /\ UNCHANGED cycle

\* poll_event: no event, or one the loop ignores
HostNoEvent ==
    /\ LoopEnded
    /\ ~failed
    /\ hpc' = "render"
    /\ last' = [op |-> "noevent", arg |-> 0]
    /\ UNCHANGED cycle
    /\ NoCall

\* poll_event: Closed, or KeyPressed with Escape: break 'main
HostClose ==
    /\ LoopEnded
    /\ ~failed
    /\ hpc' = "done"
    /\ last' = [op |-> "close", arg |-> 0]
    /\ UNCHANGED cycle
    /\ NoCall

\* sixty_hz.recv(); vm.render(&mut texture); then the next frame's for loop
HostRender ==
    /\ hpc = "render"
    /\ DoRender
    /\ hpc' = "ticks"
    /\ cycle' = 0

Next ==
    \/ HostTick
    \/ HostKeyPressed
    \/ HostKeyReleased
    \/ HostNoEvent
    \/ HostClose
    \/ HostRender

\* the emulator: Vm::new, then run_emulator
Spec == Init /\ [][Next]_vars

\* --- the Vm's methods called directly, in any order ---------------------
VmTick == DoTick /\ UNCHANGED << cycle, hpc >>
VmKeyDown == (\E key \in KeysPressed : DoKeyDown(key)) /\ UNCHANGED << cycle, hpc >>
VmKeyUp == (\E key \in KeysPressed : DoKeyUp(key)) /\ UNCHANGED << cycle, hpc >>
VmRender == DoRender /\ UNCHANGED << cycle, hpc >>

NextVm == VmTick \/ VmKeyDown \/ VmKeyUp \/ VmRender

\* 200: wait for a key into V3   202: V3 += 1   204: wait for a key into V3
WaitAddProgram == << 62218, 29441, 62218 >>

InitVm == InitWith({Assemble(WaitAddProgram), Assemble(TimerProgram)})

SpecVm == InitVm /\ [][NextVm]_vars

\* --- one batch of ticks of the first frame, for families of ROMs ---------
NextTick == VmTick

InitDraw == InitWith(DrawRoms)

\* ROMs that draw sprites
SpecDraw == InitDraw /\ [][NextTick]_vars

InitAlu == InitWith(AluRoms)

\* ROMs that load two registers and execute one 8XYN
SpecAlu == InitAlu /\ [][NextTick]_vars

InitBcd == InitWith(BcdRoms)

\* ROMs that load a register and the index register and execute FX33
SpecBcd == InitBcd /\ [][NextTick]_vars

InitTimer == InitWith(TimerRoms)

\* the emulator on ROMs that set both timers and wait for a key
SpecTimer == InitTimer /\ [][Next]_vars

InitDecode == InitWith(DecodeRoms)

\* ROMs of one instruction word, then whatever the memory holds
SpecDecode == InitDecode /\ [][NextTick]_vars

\* --- the Pixels iterator of the display ---------------------------------
\* a call of vm.display.pixels(): a new iterator (one there was is dropped)
PixelsCall ==
    /\ ~failed
    /\ iter' = [live |-> TRUE, row_idx |-> pixels.row_idx, bit |-> pixels.bit,
                k |-> 0, item |-> "-"]
    /\ last' = [op |-> "pixels", arg |-> 0]
    /\ UNCHANGED << cycle, hpc >>
    /\ UNCHANGED << vm, failed, error, calls, drawn, timers, held, frame_ticks, stored >>

\* a call of next() on the iterator; collect and for drop it when it ends
PixelsNext ==
    /\ ~failed
    /\ iter.live
    /\ LET r == pixels_next(vm.display, [row_idx |-> iter.row_idx, bit |-> iter.bit])
       IN  iter' = [live |-> r.item # "None",
                    row_idx |-> r.it.row_idx, bit |-> r.it.bit,
                    k |-> IF r.item # "None" THEN iter.k + 1 ELSE iter.k,
                    item |-> r.item]
    /\ last' = [op |-> "next", arg |-> 0]
    /\ UNCHANGED << cycle, hpc >>
    /\ UNCHANGED << vm, failed, error, calls, drawn, timers, held, frame_ticks, stored >>

\* a tick between two iterations: the iterator borrows the display
PixelsTick == ~iter.live /\ VmTick

NextPixels == PixelsTick \/ PixelsCall \/ PixelsNext

InitPixels == InitWith(PixelsRoms)

\* ROMs that draw and clear, the display iterated between any two ticks
SpecPixels == InitPixels /\ [][NextPixels]_vars

InitStoreLoad == InitWith(StoreLoadRoms)

\* ROMs that store registers with FX55 and load them back with FX65
SpecStoreLoad == InitStoreLoad /\ [][NextTick]_vars

\* The 'main loop does not stop by itself: after poll_event it calls render
\* (sixty_hz.recv() returns within a sixtieth of a second), and the for loop
\* calls tick while the Vm does not wait.
SpecFair == Spec /\ WF_vars(HostRender) /\ WF_vars(HostTick)

InitBounds == InitWith(BoundsRoms)

\* ROMs that take pc and I to the end of the memory and beyond
SpecBounds == InitBounds /\ [][NextTick]_vars

\* ------------------------------------------------------------------------
\* Claims
\* ------------------------------------------------------------------------
\* what a tick may not touch when it executes no instruction
SameMachine(s, s2) ==
    /\ s2.pc = s.pc
    /\ s2.reg = s.reg
    /\ s2.mem = s.mem
    /\ s2.display = s.display
    /\ s2.i = s.i
    /\ s2.ret_stack = s.ret_stack

\* C1: while the machine is WaitingForKey (blocked), every call of tick()
\* leaves pc, registers, memory, display, index register and return stack
\* as they were.  Vm::tick does not look at blocked: only the for loop of
\* run_emulator does, so a tick() called while blocked executes the
\* instruction at pc.
C1_TickWhileWaitingIsNoOp ==
    [][(vm.blocked /\ last'.op = "tick") => SameMachine(vm, vm')]_vars

\* C2: keyup(k) while WaitingForKey(t) resumes Running with register t = k,
\* bit k of the key mask clear and the wait target cleared, and changes no
\* other register; keyup(k) while Running changes no register.
C2_KeyUpCapturesReleasedKey ==
    [][last'.op = "keyup" =>
          LET k == last'.arg
              t == vm.blocked_reg
          IN  /\ ~failed'
              /\ ~is_key_pressed(vm'.keys, k)
              /\ \A j \in (0 .. 15) \ {k} :
                    is_key_pressed(vm'.keys, j) = is_key_pressed(vm.keys, j)
              /\ ~vm'.blocked
              /\ vm'.blocked_reg = NO_REG
              /\ vm.blocked =>
                    /\ t \in RegIdx
                    /\ vm'.reg[t] = k
                    /\ \A r \in RegIdx \ {t} : vm'.reg[r] = vm.reg[r]
              /\ ~vm.blocked => vm'.reg = vm.reg
    ]_vars

\* C2 witness: key 7 was released while the machine waited for a key into V3
\* and key 0 was still held: V3 = 7 and the machine runs.
C2_Witness ==
    /\ last = [op |-> "keyup", arg |-> 7]
    /\ ~vm.blocked
    /\ vm.reg[3] = 7
    /\ is_key_pressed(vm.keys, 0)
    /\ ~is_key_pressed(vm.keys, 7)

\* pixel (row, col) of the framebuffer, as Pixels::next reads it
PixelOn(p, row, col) == (COLS - 1 - col) \in p[row]

Pixels == RowIdx \X (0 .. (COLS - 1))

\* the pixels that differ between two framebuffers
Toggled(p, q) == {rc \in Pixels : PixelOn(p, rc[1], rc[2]) # PixelOn(q, rc[1], rc[2])}

\* the pixels a sprite covers at (x, y): bit 7 - b of sprite row r is pixel
\* (row (y + r) mod 32, column (x + b) mod 64)
SpritePixels(sprite, x, y) ==
    {<< (y + rb[1]) % ROWS, (x + rb[2]) % COLS >> :
        rb \in {c \in (0 .. (Len(sprite) - 1)) \X (0 .. 7) :
                   Bit(sprite[c[1] + 1], 7 - c[2]) = 1}}

\* this step is a tick that executed DXYN
DrawStep == last'.op = "tick" /\ IsDraw(last'.arg) /\ ~failed'

\* C3: draw(sprite, x, y) toggles exactly the pixels at row (y + r) mod 32,
\* column (x + b) mod 64 for each set bit 7 - b of sprite[r], and no other
\* pixel.
C3_DrawTogglesSpritePixels ==
    [][DrawStep =>
          Toggled(vm.display, vm'.display)
              = SpritePixels(SpriteAt(vm, last'.arg),
                             vm.reg[InsX(last'.arg)], vm.reg[InsY(last'.arg)])
    ]_vars

\* C3 witness: the rows 0xFF, 0x81 drawn at (63, 31) on an empty framebuffer:
\* row 31 has column 63 and columns 0-6, row 0 has column 63 and column 6.
C3_Witness ==
    /\ last.op = "tick" /\ IsDraw(last.arg)
    /\ drawn.n = 1 /\ drawn.x = 63 /\ drawn.y = 31 /\ drawn.sprite = << 255, 129 >>
    /\ vm.display = [r \in RowIdx |-> IF r = 31 THEN {0} \cup (57 .. 63)
                                      ELSE IF r = 0 THEN {0, 57} ELSE {}]

\* C4: two draws in a row with the same sprite, x and y leave the
\* framebuffer as it was before the first of them.
C4_DrawTwiceRestores ==
    [][(DrawStep /\ drawn'.twice) => vm'.display = drawn.before]_vars

\* C4 witness: a sprite has been drawn twice in a row on a framebuffer that
\* was not empty, and the first of the two draws had changed it.
C4_Witness ==
    /\ last.op = "tick" /\ IsDraw(last.arg)
    /\ drawn.twice
    /\ vm.display # DisplayNew
    /\ vm.display # drawn.before

\* the draw turned off a pixel that was on
Collision(p, q) == \E rc \in Pixels : PixelOn(p, rc[1], rc[2]) /\ ~PixelOn(q, rc[1], rc[2])

\* C5: DXYN leaves the flag register at 1 if the draw turned off a pixel
\* that was on and at 0 otherwise.  Display::draw returns no value and looks
\* at no pixel before it toggles it.
C5_DrawFlagIsCollision ==
    [][DrawStep =>
          vm'.reg[VF] = (IF Collision(vm.display, vm'.display) THEN 1 ELSE 0)
    ]_vars

\* this step is a tick that executed 8XYn
MathStep(n) ==
    /\ last'.op = "tick" /\ last'.arg # -1
    /\ InsOp(last'.arg) = 8 /\ InsN(last'.arg) = n

\* C6: 8XY4 leaves the flag register at 1 if old VX + old VY > 255 and at 0
\* otherwise, and VX (X not the flag register) at (old VX + old VY) mod 256,
\* also when X = Y.
C6_AddCarry ==
    [][MathStep(4) =>
          LET x == InsX(last'.arg)
              y == InsY(last'.arg)
          IN  /\ ~failed'
              /\ vm'.reg[VF] = (IF vm.reg[x] + vm.reg[y] > 255 THEN 1 ELSE 0)
              /\ x # VF => vm'.reg[x] = (vm.reg[x] + vm.reg[y]) % 256
    ]_vars

\* C6 witness: 8014 with V0 = 250, V1 = 10 has left V0 = 4 and VF = 1.
C6_Witness ==
    /\ last = [op |-> "tick", arg |-> 32788]
    /\ vm.reg[0] = 4 /\ vm.reg[1] = 10 /\ vm.reg[VF] = 1

\* C7: for X not the flag register, 8XY5 leaves VX = (old VX - old VY) mod
\* 256 and flag = 1 iff old VY > old VX; 8XY7 leaves VX = (old VY - old VX)
\* mod 256 and flag = 1 iff old VX > old VY; also when Y is the flag register.
C7_SubBorrow ==
    [][(MathStep(5) \/ MathStep(7)) =>
          LET x == InsX(last'.arg)
              y == InsY(last'.arg)
              sub == InsN(last'.arg) = 5
          IN  x # VF =>
                /\ ~failed'
                /\ vm'.reg[x] = (IF sub THEN (vm.reg[x] - vm.reg[y]) % 256
                                        ELSE (vm.reg[y] - vm.reg[x]) % 256)
                /\ vm'.reg[VF] = (IF sub THEN (IF vm.reg[y] > vm.reg[x] THEN 1 ELSE 0)
                                         ELSE (IF vm.reg[x] > vm.reg[y] THEN 1 ELSE 0))
    ]_vars

\* C7 witness: 8015 with V0 = 5, V1 = 10 has left V0 = 251 and VF = 1.
C7_Witness ==
    /\ last = [op |-> "tick", arg |-> 32789]
    /\ vm.reg[0] = 251 /\ vm.reg[1] = 10 /\ vm.reg[VF] = 1

\* C8: for X not the flag register, 8XY6 leaves VX = old VY div 2 and flag =
\* old VY mod 2, 8XYE leaves VX = (2 * old VY) mod 256 and flag = bit 7 of old
\* VY; VY is unchanged when Y differs from X and from the flag register.
C8_ShiftTakesVY ==
    [][(MathStep(6) \/ MathStep(14)) =>
          LET x == InsX(last'.arg)
              y == InsY(last'.arg)
              right == InsN(last'.arg) = 6
          IN  x # VF =>
                /\ ~failed'
                /\ vm'.reg[x] = (IF right THEN vm.reg[y] \div 2
                                          ELSE (2 * vm.reg[y]) % 256)
                /\ vm'.reg[VF] = (IF right THEN vm.reg[y] % 2
                                           ELSE vm.reg[y] \div 128)
                /\ (y # x /\ y # VF) => vm'.reg[y] = vm.reg[y]
    ]_vars

\* C8 witness: 8016 with V1 = 5 has left V0 = 2, V1 = 5 and VF = 1.
C8_Witness ==
    /\ last = [op |-> "tick", arg |-> 32790]
    /\ vm.reg[0] = 2 /\ vm.reg[1] = 5 /\ vm.reg[VF] = 1

\* this step is a tick that executed FX33
BcdStep ==
    /\ last'.op = "tick" /\ last'.arg # -1
    /\ InsOp(last'.arg) = 15 /\ InsNN(last'.arg) = 51

\* C9: for I + 3 <= 4096, FX33 writes the hundreds, tens and ones digits of
\* VX at I, I+1, I+2 and changes no other memory byte, no register and not I.
C9_BcdDigits ==
    [][BcdStep =>
          LET v == vm.reg[InsX(last'.arg)]
              a == vm.i
          IN  a + 3 <= MEMORY_SIZE =>
                /\ ~failed'
                /\ \A k \in 0 .. 2 : vm'.mem[a + k] \in 0 .. 9
                /\ 100 * vm'.mem[a] + 10 * vm'.mem[a + 1] + vm'.mem[a + 2] = v
                /\ vm'.mem = [vm.mem EXCEPT ![a] = vm'.mem[a],
                                            ![a + 1] = vm'.mem[a + 1],
                                            ![a + 2] = vm'.mem[a + 2]]
                /\ vm'.reg = vm.reg
                /\ vm'.i = vm.i
    ]_vars

\* C9 witness: F033 with V0 = 255 and I = 4093 has written 2, 5, 5 into the
\* last three bytes of memory.
C9_Witness ==
    /\ last = [op |-> "tick", arg |-> 61491]
    /\ ~failed
    /\ vm.reg[0] = 255 /\ vm.i = 4093
    /\ vm.mem[4093] = 2 /\ vm.mem[4094] = 5 /\ vm.mem[4095] = 5

\* this step is a tick that executed 2NNN
CallStep == last'.op = "tick" /\ IsCall(last'.arg)

\* this step is a tick that executed 00EE and did not abort
ReturnStep == last'.op = "tick" /\ IsReturn(last'.arg) /\ ~failed'

\* C10: 2NNN pushes the address of the instruction after the call and sets
\* pc = NNN; the 00EE that matches a call sets pc to the address after that
\* call and leaves the return stack as it was before that call.
C10_CallReturnLifo ==
    [][/\ CallStep =>
            /\ ~failed'
            /\ vm'.ret_stack = Append(vm.ret_stack, vm.pc + 2)
            /\ vm'.pc = InsNNN(last'.arg)
       /\ ReturnStep =>
            /\ Len(calls) > 0
            /\ vm'.pc = calls[Len(calls)].site + 2
            /\ vm'.ret_stack = calls[Len(calls)].stack
    ]_vars

\* C10 witness: the return from the call at 0x208, made inside the call at
\* 0x200: pc = 0x20A and the return stack holds 0x202 again.
C10_Witness ==
    /\ last = [op |-> "tick", arg |-> 238]
    /\ ~failed
    /\ vm.pc = 522
    /\ vm.ret_stack = << 514 >>
    /\ Len(calls) = 1 /\ calls[1].site = 512

\* what a timer written with v holds after n calls of render
TimerAfter(v, n) == IF n >= v THEN 0 ELSE v - n

\* C11: each call of the per-frame hook takes 1 off the delay timer if it is
\* above 0 and leaves it at 0 otherwise, and the same for the sound timer,
\* each on its own; a timer never wraps below 0 to 255; a timer written with
\* v by FX15 or FX18 holds v - n after n < v frames, 0 after v frames and 0
\* from then on.
C11_TimersFloorAtZero ==
    /\ [](/\ vm.dt = TimerAfter(timers.dt_set, timers.dt_frames)
          /\ vm.st = TimerAfter(timers.st_set, timers.st_frames))
    /\ [][last'.op = "render" =>
            /\ vm'.dt = (IF vm.dt > 0 THEN vm.dt - 1 ELSE 0)
            /\ vm'.st = (IF vm.st > 0 THEN vm.st - 1 ELSE 0)
         ]_vars

\* C11 witness: dt written with 255 and st with 1; after the 256th frame
\* both are 0, the sound timer since the first frame.
C11_Witness ==
    /\ last.op = "render"
    /\ timers.dt_set = 255 /\ timers.dt_frames = 256
    /\ timers.st_set = 1 /\ timers.st_frames = 2
    /\ vm.dt = 0 /\ vm.st = 0

\* the instruction words the dispatch does not cover
Uncovered(ins) ==
    \/ InsOp(ins) = 0 /\ ins \notin {224, 238}
    \/ InsOp(ins) = 8 /\ InsN(ins) \in {8, 9, 10, 11, 12, 13, 15}
    \/ InsOp(ins) = 14 /\ InsNN(ins) \notin {158, 161}
    \/ InsOp(ins) = 15 /\ InsNN(ins) \notin {7, 10, 21, 24, 30, 41, 51, 85, 101}

\* C12: a tick aborts with a decode error exactly for the instruction words
\* the dispatch does not cover: 0NNN other than 00E0 and 00EE, 8XYN with N
\* in {8,9,A,B,C,D,F}, EXNN with NN other than 9E and A1, FXNN with NN other
\* than 07, 0A, 15, 18, 1E, 29, 33, 55, 65; every other word is executed
\* without a decode error (it may abort for its operands: an empty return
\* stack, an address out of bounds, a key code above 15).
C12_DecodeErrors ==
    [][(last'.op = "tick" /\ last'.arg # -1) =>
          /\ (error' = "decode") <=> Uncovered(last'.arg)
          /\ Uncovered(last'.arg) => (failed' /\ ~failed)
    ]_vars

\* C12 witness: 801F (N = F has no arm in math_op) has aborted the process
\* with a decode error, pc already advanced.
C12_Witness ==
    /\ last = [op |-> "tick", arg |-> 32799]
    /\ failed /\ error = "decode"
    /\ vm.pc = 514

\* C13: a 00EE executed when every call has been returned from (the returns
\* would exceed the calls) aborts the process with a stack underflow, and an
\* aborted process takes no further step: pc is never set from a stale or
\* default return address.
C13_ReturnUnderflowIsFatal ==
    /\ [][(last'.op = "tick" /\ IsReturn(last'.arg) /\ Len(calls) = 0) =>
             /\ failed' /\ error' = "underflow"
             /\ vm'.pc = vm.pc + 2
             /\ vm'.ret_stack = << >>
         ]_vars
    /\ [][failed => (failed' /\ vm' = vm)]_vars

\* C13 witness: the 00EE at 0x204, after the calls at 0x200 and 0x202 have
\* both returned, has aborted the process.
C13_Witness ==
    /\ last = [op |-> "tick", arg |-> 238]
    /\ failed /\ error = "underflow"
    /\ calls = << >>
    /\ vm.pc = 518
    /\ vm.ret_stack = << >>

\* C14: pixels() yields exactly 32 * 64 = 2048 items and then ends; item k
\* (from 0) is On iff bit 63 - (k mod 64) of row k div 64 is set; neither
\* pixels() nor next() changes the display (nor anything else of the Vm), so
\* a new pixels() yields the same items again.
C14_PixelsRowMajorMsbFirst ==
    /\ [](iter.k <= 2048)
    /\ [][last'.op = "next" =>
            /\ vm' = vm
            /\ IF iter.k < 2048
               THEN /\ iter'.item = (IF (63 - (iter.k % 64)) \in vm.display[iter.k \div 64]
                                     THEN "On" ELSE "Off")
                    /\ iter'.k = iter.k + 1
               ELSE /\ iter'.item = "None"
                    /\ iter'.k = iter.k
         ]_vars
    /\ [][last'.op = "pixels" => (vm' = vm /\ iter'.k = 0)]_vars

\* C14 witness: the iterator has ended after 2048 items over a display with
\* lit pixels, the last item (row 31, column 63) being On.
C14_Witness ==
    /\ last.op = "next"
    /\ iter.item = "None" /\ iter.k = 2048 /\ ~iter.live
    /\ 0 \in vm.display[31]
    /\ vm.display # DisplayNew

\* the steps of poll_event
PollOps == {"keydown", "keyup", "noevent", "close"}

\* C15: in every frame of run_emulator at most 100 ticks run, none of them
\* while the machine waits for a key (whether it began to wait in this frame
\* or before), and render (the timers' decrement) runs once per frame: after
\* the frame's ticks and its poll_event, before any tick of the next frame.
C15_FrameLoop ==
    /\ [](frame_ticks <= 100)
    /\ [][last'.op = "tick" =>
            /\ ~vm.blocked
            /\ frame_ticks < 100
            /\ last.op \in {"new", "tick", "render"}
         ]_vars
    /\ [][last'.op \in PollOps => last.op \in {"new", "tick", "render"}]_vars
    /\ [][last'.op = "render" =>
            /\ last.op \in PollOps \ {"close"}
            /\ frame_ticks' = 0
         ]_vars

\* C15 witness: a frame, not the first (key 7 went down in an earlier one),
\* whose 100 ticks have run and whose poll_event found nothing; render is
\* next.
C15_Witness ==
    /\ last.op = "noevent"
    /\ frame_ticks = 100
    /\ hpc = "render"
    /\ 7 \in held
    /\ ~vm.blocked

\* s2 differs from s in the timers at most
OnlyTimers(s, s2) == [s2 EXCEPT !.dt = s.dt, !.st = s.st] = s

\* s2 differs from s in the key mask at most
OnlyKeys(s, s2) == [s2 EXCEPT !.keys = s.keys] = s

\* C16, as claimed: render changes nothing but the delay and sound timers,
\* keydown and keyup change nothing but the key mask; registers, memory,
\* display, pc, index register, return stack and the key-wait state are
\* changed by tick only.  A keyup that ends a key wait writes the target
\* register and clears blocked and blocked_reg.
C16_HooksMutateOnlyTimersAndKeys ==
    [][/\ last'.op = "render" => OnlyTimers(vm, vm')
       /\ last'.op \in {"keydown", "keyup"} => OnlyKeys(vm, vm')
       /\ last'.op # "tick" =>
            /\ vm'.reg = vm.reg /\ vm'.mem = vm.mem /\ vm'.display = vm.display
            /\ vm'.pc = vm.pc /\ vm'.i = vm.i /\ vm'.ret_stack = vm.ret_stack
            /\ vm'.blocked = vm.blocked /\ vm'.blocked_reg = vm.blocked_reg
    ]_vars

\* C16, amended: render changes nothing but the delay and sound timers;
\* keydown changes nothing but the key mask; keyup changes nothing but the
\* key mask and, when the machine waits for a key, the key-wait state
\* (cleared) and the wait's target register (set to the released key);
\* memory, display, pc, index register and return stack are changed by tick
\* only.
C16_HooksMutateTimersKeysAndWait ==
    [][/\ last'.op = "render" => OnlyTimers(vm, vm')
       /\ last'.op = "keydown" => OnlyKeys(vm, vm')
       /\ (last'.op = "keyup" /\ ~vm.blocked) => OnlyKeys(vm, vm')
       /\ (last'.op = "keyup" /\ vm.blocked) =>
            [vm' EXCEPT !.keys = vm.keys, !.blocked = vm.blocked,
                        !.blocked_reg = vm.blocked_reg,
                        !.reg = [@ EXCEPT ![vm.blocked_reg] = vm.reg[vm.blocked_reg]]]
                = vm
       /\ last'.op # "tick" =>
            /\ vm'.mem = vm.mem /\ vm'.display = vm.display
            /\ vm'.pc = vm.pc /\ vm'.i = vm.i /\ vm'.ret_stack = vm.ret_stack
    ]_vars

\* C16 witness: the release of key 9 has ended the wait for a key into VF:
\* VF = 9, the wait state is cleared and pc has not moved.
C16_Witness ==
    /\ last = [op |-> "keyup", arg |-> 9]
    /\ vm.reg[15] = 9 /\ ~vm.blocked /\ vm.blocked_reg = NO_REG
    /\ vm.pc = 514

\* the flag an 8XYN that reports one computes from the operands vx and vy
FlagOf(n, vx, vy) ==
    CASE n = 4  -> IF vx + vy > 255 THEN 1 ELSE 0
      [] n = 5  -> IF vy > vx THEN 1 ELSE 0
      [] n = 6  -> vy % 2
      [] n = 7  -> IF vx > vy THEN 1 ELSE 0
      [] n = 14 -> vy \div 128

\* C17: after 8XY4, 8XY5, 8XY6, 8XY7 and 8XYE, for every X and Y, X = 15
\* included, the flag register holds 0 or 1 and equals the carry, borrow or
\* shifted-out bit of the operands as they were before the instruction.
\* Vm::math_op writes the flag before the result in 8XY5, 8XY6, 8XY7 and
\* 8XYE: with X = 15 the result overwrites the flag.
C17_FlagAfterMath ==
    [][(\E n \in {4, 5, 6, 7, 14} : MathStep(n)) =>
          /\ vm'.reg[VF] \in {0, 1}
          /\ vm'.reg[VF] = FlagOf(InsN(last'.arg), vm.reg[InsX(last'.arg)],
                                  vm.reg[InsY(last'.arg)])
    ]_vars

\* this step is a tick that executed EX9E (nn = 158) or EXA1 (nn = 161)
KeySkipStep(nn) ==
    /\ last'.op = "tick" /\ last'.arg # -1
    /\ InsOp(last'.arg) = 14 /\ InsNN(last'.arg) = nn

MiscStep(nn) == last'.op = "tick" /\ IsMisc(last'.arg, nn)

\* C19: for every X in 0..15 and I + X + 1 <= 4096, FX55 copies V0..VX to
\* mem[I..I+X] in index order, changes no other memory byte and no register
\* and leaves I at I + X + 1; FX65 copies mem[I..I+X] to V0..VX, changes no
\* register above X and no memory and leaves I at I + X + 1; an FX65 at the
\* I and X of the last FX55, nothing written to memory in between, leaves
\* V0..VX as that FX55 found them.
C19_StoreLoadRegisters ==
    /\ [][(MiscStep(85) /\ vm.i + InsX(last'.arg) + 1 <= MEMORY_SIZE) =>
            LET x == InsX(last'.arg)
                a == vm.i
            IN  /\ ~failed'
                /\ \A r \in 0 .. x : vm'.mem[a + r] = vm.reg[r]
                /\ \A b \in Addrs \ (a .. (a + x)) : vm'.mem[b] = vm.mem[b]
                /\ vm'.reg = vm.reg
                /\ vm'.i = a + x + 1
         ]_vars
    /\ [][(MiscStep(101) /\ vm.i + InsX(last'.arg) + 1 <= MEMORY_SIZE) =>
            LET x == InsX(last'.arg)
                a == vm.i
            IN  /\ ~failed'
                /\ \A r \in 0 .. x : vm'.reg[r] = vm.mem[a + r]
                /\ \A r \in RegIdx \ (0 .. x) : vm'.reg[r] = vm.reg[r]
                /\ vm'.mem = vm.mem
                /\ vm'.i = a + x + 1
                /\ (stored.clean /\ stored.i = a /\ stored.x = x) =>
                      \A r \in 0 .. x : vm'.reg[r] = stored.reg[r]
         ]_vars

\* C19 witness: FF55 at I = 4080 filled the last 16 bytes of memory, V0, V1
\* and VF were overwritten, and FF65 at I = 4080 has brought back V0 = 11,
\* V1 = 22, VF = 55 (hex), with I = 4096.
C19_Witness ==
    /\ last = [op |-> "tick", arg |-> 65381]
    /\ ~failed
    /\ stored.clean /\ stored.i = 4080 /\ stored.x = 15
    /\ vm.i = 4096
    /\ vm.reg[0] = 17 /\ vm.reg[1] = 34 /\ vm.reg[15] = 85
    /\ vm.mem[4080] = 17 /\ vm.mem[4095] = 85

\* C20: a machine that waits for a key goes on waiting, for the same target
\* register, across keydown events, frames without an event and calls of
\* render, while render still counts the timers down; only a keyup ends the
\* wait, every keyup does, and after it the machine executes instructions
\* again.
C20_WaitsUntilKeyUp ==
    /\ [][(vm.blocked /\ last'.op # "keyup") =>
            /\ vm'.blocked
            /\ vm'.blocked_reg = vm.blocked_reg
            /\ last'.op \in {"keydown", "render", "noevent", "close"}
         ]_vars
    /\ [][(vm.blocked /\ last'.op = "render") =>
            /\ vm'.dt = (IF vm.dt > 0 THEN vm.dt - 1 ELSE 0)
            /\ vm'.st = (IF vm.st > 0 THEN vm.st - 1 ELSE 0)
         ]_vars
    /\ [][(vm.blocked /\ last'.op = "keyup") => (~vm'.blocked /\ ~failed')]_vars
    /\ ((last.op = "keyup" /\ hpc = "render") ~> (last.op = "tick"))

\* C20 witness: the machine has waited for a key into V2 through a keydown
\* and three frames; the timers, written with 3 and 2, have gone down to 0.
C20_Witness ==
    /\ vm.blocked /\ vm.blocked_reg = 2
    /\ last.op = "render"
    /\ held # {}
    /\ timers.dt_set = 3 /\ timers.dt_frames = 3 /\ vm.dt = 0
    /\ timers.st_set = 2 /\ vm.st = 0

\* the bytes the instruction ins reads or writes at I (0 for the others)
AccessLen(ins) ==
    IF IsDraw(ins) THEN InsN(ins)
    ELSE IF IsMisc(ins, 51) THEN 3
    ELSE IF IsMisc(ins, 85) \/ IsMisc(ins, 101) THEN InsX(ins) + 1
    ELSE 0

\* ins reads or writes memory at I
IsAccess(ins) == IsDraw(ins) \/ IsMisc(ins, 51) \/ IsMisc(ins, 85) \/ IsMisc(ins, 101)

\* C21: no access wraps around memory.  A tick with pc >= 4096 or pc + 1 >=
\* 4096 aborts the process and changes nothing; a DXYN, FX33, FX55 or FX65
\* whose bytes I .. I + len - 1 end beyond 4096 aborts it and changes no
\* memory byte, no register, no pixel and not I.
C21_NoAccessBeyondMemory ==
    /\ [][(last'.op = "tick" /\ vm.pc + 1 >= MEMORY_SIZE) =>
            /\ failed' /\ error' = "bounds"
            /\ vm' = vm
         ]_vars
    /\ [][(/\ last'.op = "tick" /\ vm.pc + 1 < MEMORY_SIZE
           /\ IsAccess(last'.arg)
           /\ vm.i + AccessLen(last'.arg) > MEMORY_SIZE) =>
            /\ failed' /\ error' = "bounds"
            /\ vm'.mem = vm.mem /\ vm'.reg = vm.reg
            /\ vm'.display = vm.display /\ vm'.i = vm.i
         ]_vars

\* C21 witness: FX33 with I = 0xFFFF, whose three bytes would end at 2 in
\* 16-bit arithmetic, has aborted the process.
C21_Witness ==
    /\ last = [op |-> "tick", arg |-> 61491]
    /\ failed /\ error = "bounds"
    /\ vm.i = 65535

\* C22: in every reachable state blocked and blocked_reg agree: the machine
\* waits for a key iff blocked_reg is a register index, 0..15, and it runs
\* iff blocked_reg is 255; so no keyup writes a register of an index out of
\* range (the assert! of Registers::get_mut never fires in keyup).
C22_WaitFlagAndTargetAgree ==
    /\ [](vm.blocked <=> vm.blocked_reg \in 0 .. 15)
    /\ [](~vm.blocked <=> vm.blocked_reg = 255)
    /\ [][last'.op = "keyup" => (~failed' /\ error' = "none")]_vars

\* C22 witness: the machine waits for a key into V3 for the second time; the
\* first wait ended with the release of key 7.
C22_Witness ==
    /\ vm.blocked /\ vm.blocked_reg = 3
    /\ vm.reg[3] = 7
    /\ vm.pc = 516
    /\ hpc = "ticks"

====
